---------------------------- MODULE Spec2Model ----------------------------
(***************************************************************************)
(* VentureNerve: the in-browser Monte Carlo simulations and the portfolio  *)
(* builder of the Methodology and Portfolio pages.                         *)
(*                                                                         *)
(* Numbers.  JavaScript numbers are modelled in fixed point, each quantity *)
(* with the scale stated at its definition.  The three IEEE-754 special    *)
(* values the simulations can produce are kept: Math.random() returns a    *)
(* value in [0, 1), so u1 = 0 is a possible draw, Math.log(0) is -Infinity *)
(* and the Box-Muller variate z is then +Infinity or -Infinity; sums and   *)
(* products of those follow IEEE-754 (Infinity - Infinity = NaN, ...).     *)
(***************************************************************************)
EXTENDS Integers, Sequences, FiniteSets

-----------------------------------------------------------------------------
(* Extended numbers: a finite fixed-point integer, or one of PosInf,       *)
(* NegInf, NaN.  Every finite quantity of the model is far below 2^30.     *)

PosInf == 2^30
NegInf == -(2^30)
NaN == 2^30 + 1

IsFin(x) == x > NegInf /\ x < PosInf

XSign(x) == IF x > 0 THEN 1 ELSE IF x < 0 THEN -1 ELSE 0

\* a + b  (IEEE-754: Infinity + -Infinity = NaN, NaN absorbs)
XAdd(a, b) ==
    IF a = NaN \/ b = NaN THEN NaN
    ELSE IF ~IsFin(a) /\ ~IsFin(b) THEN (IF a = b THEN a ELSE NaN)
    ELSE IF ~IsFin(a) THEN a
    ELSE IF ~IsFin(b) THEN b
    ELSE a + b

\* a * b / scale  (IEEE-754: 0 * Infinity = NaN, NaN absorbs); scale > 0
XMul(a, b, scale) ==
    IF a = NaN \/ b = NaN THEN NaN
    ELSE IF ~IsFin(a) \/ ~IsFin(b)
         THEN (IF a = 0 \/ b = 0 THEN NaN
               ELSE IF XSign(a) * XSign(b) > 0 THEN PosInf ELSE NegInf)
    ELSE (a * b) \div scale

\* a <= b, a < b  (any comparison with NaN is false)
XLeq(a, b) == a # NaN /\ b # NaN /\ a <= b
XLt(a, b) == a # NaN /\ b # NaN /\ a < b

\* Math.max(a, b)  (NaN if either argument is NaN)
XMax(a, b) == IF a = NaN \/ b = NaN THEN NaN ELSE IF a >= b THEN a ELSE b

-----------------------------------------------------------------------------
(* State.                                                                  *)

\* runMonteCarlo: its parameter n, its loop variables, the results array,
\* the returned record; aliveAt is the survival curve of the run
VARIABLES n, i, m, cash, mrr, distressed, results, mcPc, aliveAt, simResult

mcVars == <<n, i, m, cash, mrr, distressed, results, mcPc, aliveAt, simResult>>

\* buildPortfolio: its arguments, its locals scored and selected, its result
VARIABLES startups, profile, scored, selected, portfolio, bpPc

bpVars == <<startups, profile, scored, selected, portfolio, bpPc>>

\* runPortfolioMC: its arguments portfolio and n, its loop variables, the
\* paths array, the returned record; contribs are the last year's contrib
\* values and hit the holdings drawn distressed so far in the current path
VARIABLES simPortfolio, simN, sim, year, value, yearlyValues, paths, pmcPc,
          contribs, hit, mcResult

pmcVars == <<simPortfolio, simN, sim, year, value, yearlyValues, paths, pmcPc,
             contribs, hit, mcResult>>

\* the Portfolio component: its state running, its ref hasRun, the pending
\* setTimeout callbacks (each holds the portfolio its runMC closed over);
\* resultOf is the portfolio mcResult was computed from
VARIABLES running, hasRun, timers, pagePc, resultOf

\* window.location.search: the URL's minIRR, maxPD and risk parameters
VARIABLES search

pageVars == <<running, hasRun, timers, pagePc, resultOf, search>>

\* the portfolio engine the README documents (build_portfolio): the ROI
\* samples and configuration of a run, the objective under evaluation, the
\* best objective so far, the result
VARIABLES engSamples, engConfig, engIdx, engBest, engResult, engPc

engVars == <<engSamples, engConfig, engIdx, engBest, engResult, engPc>>

vars == <<mcVars, bpVars, pmcVars, pageVars, engVars>>

Null == [none |-> TRUE]

\* a list that has not been computed yet
NotYet == <<Null>>

-----------------------------------------------------------------------------
(* runMonteCarlo (Methodology page).  Money in dollars; growth and the     *)
(* growth parameters in thousandths; z in halves; multiple in thousandths; *)
(* irr in hundredths.                                                      *)

baseMRR == 150000
growthMean == 120
growthStd == 80
burnRate == 200000
initialCash == 4400000
months == 12
investmentCost == 1000000

\* bound: the number of simulated paths n (2000 in the page's call)
MaxTrials == 3

\* The Box-Muller variate z, in halves: u1 = 0 gives +-Infinity; the finite
\* draws are sampled by z = 1 (growth 0.20).
ZDraws == {NegInf, 2, PosInf}


\* growth = growthMean + growthStd * z
Growth(z) == XAdd(growthMean, XMul(growthStd, z, 2))

\* mrr * (1 + growth)
NextMRR(r, z) == XMul(r, XAdd(1000, Growth(z)), 1000)

\* cash + mrr - burnRate
NextCash(c, r) == XAdd(XAdd(c, r), -burnRate)

\* if (cash <= 0) { distressed = true; break; }   and the loop's m++, m < months
NoBreak(c, mm, d) ==
    [distressed |-> d \/ XLeq(c, 0), m |-> mm + 1,
     pc |-> IF mm + 1 < months THEN "month" ELSE "record",
     alive |-> ~XLeq(c, 0)]

\* the test written as !(cash > 0): a NaN balance counts as distress
MonthExitNotPositive(c, mm, d) ==
    IF ~XLt(0, c)
    THEN [distressed |-> TRUE, m |-> mm, pc |-> "record", alive |-> FALSE]
    ELSE [distressed |-> d, m |-> mm + 1,
          pc |-> IF mm + 1 < months THEN "month" ELSE "record", alive |-> TRUE]

MonthExit(c, mm, d) ==
    IF XLeq(c, 0)
    THEN [distressed |-> TRUE, m |-> mm, pc |-> "record", alive |-> FALSE]
    ELSE [distressed |-> d, m |-> mm + 1,
          pc |-> IF mm + 1 < months THEN "month" ELSE "record", alive |-> TRUE]

\* floor of the cube root of a finite x >= 0
IRoot3(x) == CHOOSE r \in 0..1290 : r * r * r <= x /\ (r + 1) * (r + 1) * (r + 1) > x

\* distressed ? 0 : Math.max(0, terminalARR * 8 / investmentCost), in thousandths
Multiple(r, d) ==
    LET terminalARR == XMul(r, 12, 1)
    IN  IF d THEN 0 ELSE XMax(0, XMul(terminalARR, 8, investmentCost \div 1000))

\* distressed ? -1 : Math.pow(multiple, 1 / 3) - 1, in hundredths
Irr(mult, d) ==
    IF d THEN -100
    ELSE IF ~IsFin(mult) THEN mult
    ELSE IRoot3(mult * 1000) - 100

\* line 39: { irr, distressed, multiple }
Outcome(r, d) ==
    [irr |-> Irr(Multiple(r, d), d), distressed |-> d, multiple |-> Multiple(r, d)]

RECURSIVE XSum(_)
XSum(s) == IF s = <<>> THEN 0 ELSE XAdd(Head(s), XSum(Tail(s)))

\* the sum divided by irrs.length, without the || 1: 0 / 0 is NaN
MeanIRRUnguarded(irrs) ==
    IF Len(irrs) = 0 THEN NaN ELSE XMul(XSum(irrs), 1, Len(irrs))

\* line 44: irrs.reduce((a, b) => a + b, 0) / (irrs.length || 1)
MeanIRR(irrs) == XMul(XSum(irrs), 1, IF Len(irrs) = 0 THEN 1 ELSE Len(irrs))

\* line 55: Math.min(11, Math.max(0, Math.floor((irr + 0.6) / 0.3) + 2));
\* irr in hundredths; Math.floor(Infinity) is Infinity, NaN stays NaN
BucketIndex(irr) ==
    IF irr = NaN THEN NaN
    ELSE IF irr = PosInf THEN 11
    ELSE IF irr = NegInf THEN 0
    ELSE LET idx == ((irr + 60) \div 30) + 2
         IN  IF idx < 0 THEN 0 ELSE IF idx > 11 THEN 11 ELSE idx

\* lines 48-57: min and max in hundredths; buckets[NaN] does not exist
Buckets(irrs) ==
    [b \in 0..11 |->
        [min |-> (b - 2) * 30, max |-> (b - 1) * 30,
         count |-> Cardinality({k \in 1..Len(irrs) : BucketIndex(irrs[k]) = b})]]

\* the survival factor left out: meanIRR * pd
RarTimesPD(meanIRR, pd) == XMul(meanIRR, pd, 1000)

\* line 45: meanIRR * (1 - pd), pd in thousandths
Rar(meanIRR, pd) == XMul(meanIRR, 1000 - pd, 1000)

\* lines 42-45 and 59: pd in thousandths, meanIRR and rar in hundredths
Summary(res, nn) ==
    LET failed == SelectSeq(res, LAMBDA r : r.distressed)
        alive == SelectSeq(res, LAMBDA r : ~r.distressed)
        irrs == [k \in 1..Len(alive) |-> alive[k].irr]
        pd == (Len(failed) * 1000) \div nn
        meanIRR == MeanIRR(irrs)
    IN  [pd |-> pd, meanIRR |-> meanIRR, rar |-> Rar(meanIRR, pd),
         buckets |-> Buckets(irrs), n |-> nn, distressedCount |-> Len(failed)]

InitMC ==
    /\ n \in 1..MaxTrials
    /\ i = 0
    /\ m = 0
    /\ cash = initialCash
    /\ mrr = baseMRR
    /\ distressed = FALSE
    /\ results = <<>>
    /\ mcPc = "month"
    /\ aliveAt = [t \in 1..months |-> 0]
    /\ simResult = Null

\* one iteration of the month loop: lines 23-31.  aliveAt[t] counts the
\* paths that completed month t without failing (the survival curve).
MCMonth(Draws) ==
    /\ mcPc = "month"
    /\ \E z \in Draws :
         LET r == NextMRR(mrr, z)
             c == NextCash(cash, r)
             x == MonthExit(c, m, distressed)
         IN  /\ mrr' = r
             /\ cash' = c
             /\ distressed' = x.distressed
             /\ m' = x.m
             /\ mcPc' = x.pc
             /\ aliveAt' = IF x.alive THEN [aliveAt EXCEPT ![m + 1] = @ + 1] ELSE aliveAt
    /\ UNCHANGED <<n, i, results, simResult>>

\* the end of one path: lines 33-39, and the start of the next: lines 17-21
MCRecord ==
    /\ mcPc = "record"
    /\ results' = Append(results, Outcome(mrr, distressed))
    /\ i' = i + 1
    /\ IF i + 1 < n
       THEN /\ cash' = initialCash
            /\ mrr' = baseMRR
            /\ distressed' = FALSE
            /\ m' = 0
            /\ mcPc' = "month"
       ELSE /\ UNCHANGED <<cash, mrr, distressed, m>>
            /\ mcPc' = "summary"
    /\ UNCHANGED <<n, aliveAt, simResult>>

\* lines 42-59: the summary statistics and the returned record
MCSummary ==
    /\ mcPc = "summary"
    /\ simResult' = Summary(results, n)
    /\ mcPc' = "done"
    /\ UNCHANGED <<n, i, m, cash, mrr, distressed, results, aliveAt>>



-----------------------------------------------------------------------------
(* C4: in runMonteCarlo a path that fails (cash <= 0) in some month stops  *)
(* at once: while it is flagged distressed no month of it is evolved (m,   *)
(* mrr and cash stay as they are until the path is recorded), and the      *)
(* record pushed for it has multiple exactly 0.                            *)
C4_FailTerminates ==
    [][distressed =>
         /\ (i' = i => m' = m /\ mrr' = mrr /\ cash' = cash)
         /\ (i' = i + 1 => /\ results'[i'].distressed
                            /\ results'[i'].multiple = 0)]_vars

\* a second path has failed before its last month and was recorded
C4_Witness ==
    /\ Len(results) = 2
    /\ results[2].distressed
    /\ results[2].multiple = 0
    /\ m < months - 1

(* C6: the survival curve is non-increasing: the number of paths alive     *)
(* after month t + 1 never exceeds the number alive after month t.         *)
C6_SurvivalMonotone ==
    \A t \in 1..(months - 1) : aliveAt[t + 1] <= aliveAt[t]

\* a run in which one path failed in month 4 and another survived
C6_Witness ==
    /\ mcPc = "done"
    /\ aliveAt[3] = 2
    /\ aliveAt[4] = 1
    /\ aliveAt[months] = 1

-----------------------------------------------------------------------------
(* buildPortfolio (Portfolio page).  expectedIRR, pd12m, minIRR and maxPD  *)
(* in hundredths; score in thousandths; raw weights in hundredths; weight  *)
(* in units of 10^-8.                                                      *)

\* bound: the length of the startup list
MaxStartups == 6

\* The two kinds of startup the lists are built from: a high-return,
\* high-risk one and a low-return, low-risk one.
Qualities == {[expectedIRR |-> 60, pd12m |-> 45], [expectedIRR |-> 30, pd12m |-> 5]}

\* startup j is in a sector of its own ("S<j>") or in the shared sector 0
StartupLists ==
    UNION {{[j \in 1..k |-> [id |-> j,
                             sector |-> IF own[j] THEN j ELSE 0,
                             expectedIRR |-> q[j].expectedIRR,
                             pd12m |-> q[j].pd12m]]
            : own \in [1..k -> BOOLEAN], q \in [1..k -> Qualities]}
           : k \in 1..MaxStartups}

\* risk is the 1..5 slider of RISK_LABELS; minIRR and maxPD the page's defaults
Profiles == [minIRR : {25}, maxPD : {20}, risk : 1..5]

\* lines 479-480
Eligible(ss, pr) ==
    SelectSeq(ss, LAMBDA s : XLeq(pr.minIRR, s.expectedIRR) /\ XLeq(s.pd12m, pr.maxPD))

\* the filter's result dropped: the pool is always the whole list
PoolUnfiltered(ss, pr) == ss

Pool(ss, pr) == IF Len(Eligible(ss, pr)) >= 5 THEN Eligible(ss, pr) ELSE ss

\* line 488, with riskFactor = risk / 5:
\* expectedIRR * riskFactor + (1 - pd12m) * (1 - riskFactor * 0.5)
Score(s, risk) == 2 * s.expectedIRR * risk + (100 - s.pd12m) * (10 - risk)

\* the comparator reversed: (a, b) => a.score - b.score
RECURSIVE InsertAscending(_, _)
InsertAscending(sorted, s) ==
    IF sorted = <<>> THEN <<s>>
    ELSE IF Head(sorted).score <= s.score
         THEN <<Head(sorted)>> \o InsertAscending(Tail(sorted), s)
         ELSE <<s>> \o sorted

\* Array.prototype.sort with (a, b) => b.score - a.score: stable, descending
RECURSIVE InsertByScore(_, _)
InsertByScore(sorted, s) ==
    IF sorted = <<>> THEN <<s>>
    ELSE IF Head(sorted).score >= s.score
         THEN <<Head(sorted)>> \o InsertByScore(Tail(sorted), s)
         ELSE <<s>> \o sorted

RECURSIVE SortByScore(_)
SortByScore(ss) ==
    IF ss = <<>> THEN <<>>
    ELSE InsertByScore(SortByScore(SubSeq(ss, 1, Len(ss) - 1)), ss[Len(ss)])

\* lines 484-490
Scored(pool, risk) ==
    SortByScore([j \in 1..Len(pool) |->
        [id |-> pool[j].id, sector |-> pool[j].sector,
         expectedIRR |-> pool[j].expectedIRR, pd12m |-> pool[j].pd12m,
         score |-> Score(pool[j], risk)]])

\* the sector pass left out: nothing is picked before the fill by rank
PickNoSectors(sel, rest) == sel

\* lines 495-501: the first of each sector, in rank order, up to 5
RECURSIVE PickSectors(_, _)
PickSectors(sel, rest) ==
    IF rest = <<>> \/ Len(sel) >= 5 THEN sel
    ELSE IF \E k \in 1..Len(sel) : sel[k].sector = Head(rest).sector
         THEN PickSectors(sel, Tail(rest))
         ELSE PickSectors(Append(sel, Head(rest)), Tail(rest))

\* the fill without the selected.find check: the ranked list from its top
RECURSIVE PickRestUnchecked(_, _)
PickRestUnchecked(sel, rest) ==
    IF rest = <<>> \/ Len(sel) >= 5 THEN sel
    ELSE PickRestUnchecked(Append(sel, Head(rest)), Tail(rest))

\* lines 502-505: fill up to 5 with the best not yet selected
RECURSIVE PickRest(_, _)
PickRest(sel, rest) ==
    IF rest = <<>> \/ Len(sel) >= 5 THEN sel
    ELSE IF \E k \in 1..Len(sel) : sel[k].id = Head(rest).id
         THEN PickRest(sel, Tail(rest))
         ELSE PickRest(Append(sel, Head(rest)), Tail(rest))

Selected(sc) == PickRest(PickSectors(<<>>, sc), sc)

\* the two tilts exchanged: safety grows with risk, return shrinks with it
RawWeightTiltSwapped(s, risk) ==
    LET safetyWeight == 10000 \div (s.pd12m + 5)
        returnWeight == s.expectedIRR
    IN  safetyWeight * risk + (returnWeight * (25 - 2 * risk)) \div 25

\* lines 508-512: safetyWeight * (1 - riskFactor * 0.4) + returnWeight * riskFactor * 5
RawWeight(s, risk) ==
    LET safetyWeight == 10000 \div (s.pd12m + 5)
        returnWeight == s.expectedIRR
    IN  (safetyWeight * (25 - 2 * risk)) \div 25 + returnWeight * risk

RECURSIVE SumSeq(_)
SumSeq(s) == IF s = <<>> THEN 0 ELSE Head(s) + SumSeq(Tail(s))

\* raw / total to 8 decimal places (two steps of long division)
Quotient(raw, total) ==
    LET q1 == (raw * 10000) \div total
        r1 == (raw * 10000) % total
    IN  q1 * 10000 + (r1 * 10000) \div total

\* the total taken over every scored candidate instead of the selected ones
WeightedOverScored(sel, risk) ==
    LET total == SumSeq([j \in 1..Len(scored) |-> RawWeight(scored[j], risk)])
    IN  [j \in 1..Len(sel) |->
            [id |-> sel[j].id, sector |-> sel[j].sector,
             expectedIRR |-> sel[j].expectedIRR, pd12m |-> sel[j].pd12m,
             score |-> sel[j].score, weight |-> Quotient(RawWeight(sel[j], risk), total)]]

\* lines 508-514
Weighted(sel, risk) ==
    LET rawWeights == [j \in 1..Len(sel) |-> RawWeight(sel[j], risk)]
        total == SumSeq(rawWeights)
    IN  [j \in 1..Len(sel) |->
            [id |-> sel[j].id, sector |-> sel[j].sector,
             expectedIRR |-> sel[j].expectedIRR, pd12m |-> sel[j].pd12m,
             score |-> sel[j].score, weight |-> Quotient(rawWeights[j], total)]]

InitBP ==
    /\ startups \in StartupLists
    /\ profile \in Profiles
    /\ scored = NotYet
    /\ selected = NotYet
    /\ portfolio = NotYet
    /\ bpPc = "score"

\* the pool sorted in place: when the pool is the startups array itself
\* (the fallback of line 480) the caller's array is reordered
BPScoreInPlace ==
    /\ bpPc = "score"
    /\ scored' = Scored(Pool(startups, profile), profile.risk)
    /\ startups' = IF Len(Eligible(startups, profile)) >= 5 THEN startups
                   ELSE [j \in 1..Len(startups) |->
                           [id |-> scored'[j].id, sector |-> scored'[j].sector,
                            expectedIRR |-> scored'[j].expectedIRR,
                            pd12m |-> scored'[j].pd12m]]
    /\ bpPc' = "select"
    /\ UNCHANGED <<profile, selected, portfolio>>

\* lines 479-490: filter and map build new arrays; sort orders the new one
BPScore ==
    /\ bpPc = "score"
    /\ scored' = Scored(Pool(startups, profile), profile.risk)
    /\ bpPc' = "select"
    /\ UNCHANGED <<startups, profile, selected, portfolio>>

\* lines 492-505
BPSelect ==
    /\ bpPc = "select"
    /\ selected' = Selected(scored)
    /\ bpPc' = "weigh"
    /\ UNCHANGED <<startups, profile, scored, portfolio>>

\* lines 507-514
BPWeigh ==
    /\ bpPc = "weigh"
    /\ portfolio' = Weighted(selected, profile.risk)
    /\ bpPc' = "built"
    /\ UNCHANGED <<startups, profile, scored, selected>>


\* buildPortfolio(startups, { minIRR, maxPD, risk })
BuildPortfolio(ss, pr) == Weighted(Selected(Scored(Pool(ss, pr), pr.risk)), pr.risk)

-----------------------------------------------------------------------------
(* runPortfolioMC (Portfolio page).  value, yearReturn and contrib in      *)
(* units of 10^-4; annualIRR in thousandths; the distress probability in   *)
(* thousandths; chartData in tenths (one decimal place).                   *)

Years == 5

\* The portfolios simulated: those buildPortfolio returns for one or two
\* startups at the default profile.
SimPortfolios ==
    {BuildPortfolio(ss, [minIRR |-> 25, maxPD |-> 20, risk |-> 3]) :
        ss \in {l \in StartupLists : Len(l) <= 2 /\ \A j \in 1..Len(l) : l[j].sector = j}}

\* One holding's draws in one year: the Box-Muller variate z (u1 = 0 gives
\* +-Infinity, the finite draws are sampled by z = -1) and whether the third
\* Math.random() fell below the distress probability.
PathDraws == [z : {NegInf, -1, PosInf}, distressed : BOOLEAN]

\* holding.pd12m * (year / 2)
DistressProb(pd12m, y) == (pd12m * 10 * y) \div 2

\* Math.random() < p, Math.random() in [0, 1): true is possible iff p > 0,
\* false iff p < 1
CanDraw(h, y, d) ==
    IF d.distressed THEN DistressProb(h.pd12m, y) > 0 ELSE DistressProb(h.pd12m, y) < 1000

\* lines 527, 529: the holding's contribution to the year's return
Contrib(h, d) ==
    LET w == h.weight \div 10^4
        annualIRR == XAdd(10 * h.expectedIRR, XMul(150, d.z, 1))
    IN  IF d.distressed THEN (-w * 6) \div 10 ELSE XMul(w, annualIRR, 1000)

\* yearlyValues.push(Math.max(0, value))
Recorded(v) == XMax(0, v)

\* a - b of the sort's comparator, as an order: NaN compares as equal
RECURSIVE InsertAsc(_, _)
InsertAsc(sorted, x) ==
    IF sorted = <<>> THEN <<x>>
    ELSE IF XLt(x, Head(sorted)) THEN <<x>> \o sorted
         ELSE <<Head(sorted)>> \o InsertAsc(Tail(sorted), x)

RECURSIVE SortAsc(_)
SortAsc(arr) ==
    IF arr = <<>> THEN <<>>
    ELSE InsertAsc(SortAsc(SubSeq(arr, 1, Len(arr) - 1)), arr[Len(arr)])

\* sorted[Math.floor(sorted.length * p)], p in hundredths
GetPercentile(arr, p) == SortAsc(arr)[((Len(arr) * p) \div 100) + 1]

\* +(x * 100).toFixed(1): x in units of 10^-4 rounded to tenths of a percent
ToFixed1(x) == IF IsFin(x) THEN (x + 5) \div 10 ELSE x

\* lines 543-556
ChartResult(ps, nn) ==
    [chartData |->
        [y \in 0..Years |->
            LET vals == [k \in 1..Len(ps) |-> ps[k][y + 1]]
            IN  [p10 |-> ToFixed1(GetPercentile(vals, 10)),
                 p25 |-> ToFixed1(GetPercentile(vals, 25)),
                 p50 |-> ToFixed1(GetPercentile(vals, 50)),
                 p75 |-> ToFixed1(GetPercentile(vals, 75)),
                 p90 |-> ToFixed1(GetPercentile(vals, 90))]],
     pd |-> (Cardinality({k \in 1..Len(ps) : XLt(ps[k][Years + 1], 5000)}) * 1000) \div nn,
     n |-> nn]

\* one simulated path (n = 1) of each portfolio: what happens within a path
\* does not depend on the number of paths
InitPMC ==
    /\ simPortfolio \in SimPortfolios
    /\ simN = 1
    /\ sim = 0
    /\ year = 1
    /\ value = 10000
    /\ yearlyValues = <<10000>>
    /\ paths = <<>>
    /\ pmcPc = "year"
    /\ contribs = <<>>
    /\ hit = {}
    /\ mcResult = Null

\* one iteration of the year loop: lines 522-534 (c, yearReturn and v are
\* the loop's locals, each computed once)
PMCYear(Draws) ==
    /\ pmcPc = "year"
    /\ \E d \in [1..Len(simPortfolio) -> Draws] :
         /\ \A h \in 1..Len(simPortfolio) : CanDraw(simPortfolio[h], year, d[h])
         /\ \E c \in {[h \in 1..Len(simPortfolio) |-> Contrib(simPortfolio[h], d[h])]} :
            \E yearReturn \in {XSum(c)} :
            \E v \in {XMul(value, XAdd(10000, yearReturn), 10000)} :
                /\ contribs' = c
                /\ value' = v
                /\ yearlyValues' = Append(yearlyValues, Recorded(v))
                /\ hit' = hit \cup {h \in 1..Len(simPortfolio) : d[h].distressed}
    /\ year' = year + 1
    /\ pmcPc' = IF year < Years THEN "year" ELSE "push"
    /\ UNCHANGED <<simPortfolio, simN, sim, paths, mcResult>>

\* paths.push(yearlyValues), and the start of the next path: lines 519-521, 535
PMCPush ==
    /\ pmcPc = "push"
    /\ paths' = Append(paths, yearlyValues)
    /\ sim' = sim + 1
    /\ IF sim + 1 < simN
       THEN /\ value' = 10000
            /\ yearlyValues' = <<10000>>
            /\ year' = 1
            /\ hit' = {}
            /\ pmcPc' = "year"
       ELSE /\ UNCHANGED <<value, yearlyValues, year, hit>>
            /\ pmcPc' = "chart"
    /\ UNCHANGED <<simPortfolio, simN, contribs, mcResult>>

\* lines 538-556: the result is returned and the call's locals are gone
PMCChart ==
    /\ pmcPc = "chart"
    /\ mcResult' = ChartResult(paths, simN)
    /\ pmcPc' = "done"
    /\ sim' = 0 /\ year' = 0 /\ value' = 0 /\ yearlyValues' = <<>>
    /\ paths' = <<>> /\ contribs' = <<>> /\ hit' = {}
    /\ UNCHANGED <<simPortfolio, simN>>

-----------------------------------------------------------------------------
Ids(seq) == {seq[j].id : j \in 1..Len(seq)}

budget == 500000
min_ticket == 100000

(* C2: every selected member's ticket (weight * budget) is at least        *)
(* min_ticket, and the tickets sum to at most budget.                      *)
C2_BudgetInvariant ==
    LET Ticket(h) == ((h.weight \div 100) * (budget \div 1000)) \div 1000
    IN  bpPc = "built" =>
            /\ \A j \in 1..Len(portfolio) : Ticket(portfolio[j]) >= min_ticket
            /\ SumSeq([j \in 1..Len(portfolio) |-> Ticket(portfolio[j])]) <= budget

\* s is the best-ranked candidate of its sector
SectorLeader(s) ==
    \E k \in 1..Len(scored) :
        /\ scored[k].id = s.id
        /\ \A l \in 1..(k - 1) : scored[l].sector # s.sector

(* C10 as stated: every selected holding scores at least as high as every  *)
(* pool member that was not selected.                                      *)
C10_TopKByScore ==
    bpPc \in {"weigh", "built"} =>
        \A j \in 1..Len(selected) : \A k \in 1..Len(scored) :
            scored[k].id \notin Ids(selected) => selected[j].score >= scored[k].score

(* C10 as amended: every selected holding scores at least as high as every *)
(* pool member that was not selected, except that a holding selected as    *)
(* the best-ranked of its sector may score lower than a non-selected       *)
(* member of another sector that is represented in the selection.          *)
C10_TopKWithinDiversification ==
    bpPc \in {"weigh", "built"} =>
        \A j \in 1..Len(selected) : \A k \in 1..Len(scored) :
            scored[k].id \notin Ids(selected) =>
                \/ selected[j].score >= scored[k].score
                \/ /\ SectorLeader(selected[j])
                   /\ scored[k].sector # selected[j].sector
                   /\ \E l \in 1..Len(selected) : selected[l].sector = scored[k].sector

\* six candidates of unequal scores, five selected, the one left out
\* outscored by a selected holding of its own sector
C10_Witness ==
    /\ bpPc = "weigh"
    /\ Len(scored) = 6
    /\ Len(selected) = 5
    /\ \E k \in 1..6 :
         /\ scored[k].id \notin Ids(selected)
         /\ \E j \in 1..5 : /\ selected[j].sector = scored[k].sector
                            /\ selected[j].score > scored[k].score

-----------------------------------------------------------------------------
IdleMC ==
    /\ n = 0 /\ i = 0 /\ m = 0 /\ cash = 0 /\ mrr = 0 /\ distressed = FALSE
    /\ results = <<>> /\ mcPc = "idle" /\ aliveAt = <<>> /\ simResult = Null

IdleBP ==
    /\ startups = <<>> /\ profile = Null /\ scored = NotYet /\ selected = NotYet
    /\ portfolio = NotYet /\ bpPc = "idle"

IdlePMC ==
    /\ simPortfolio = <<>> /\ simN = 0 /\ sim = 0 /\ year = 0 /\ value = 0
    /\ yearlyValues = <<>> /\ paths = <<>> /\ pmcPc = "idle" /\ contribs = <<>>
    /\ hit = {} /\ mcResult = Null

IdlePage ==
    /\ running = FALSE /\ hasRun = FALSE /\ timers = <<>> /\ pagePc = "idle"
    /\ resultOf = NotYet /\ search = Null

IdleEng ==
    /\ engSamples = <<>> /\ engConfig = Null /\ engIdx = 0 /\ engBest = Null
    /\ engResult = Null /\ engPc = "idle"

-----------------------------------------------------------------------------
(* The Portfolio component: lines 624-646 and the Re-run button, lines     *)
(* 775-781.  A render, an effect, a click and a timeout callback each run  *)
(* to completion before the next one starts.                               *)

\* bound: the number of paths of a run started by the page (1500 there)
PagePaths == 1

\* STARTUPS as the page sees it: one startup
PageStartupLists ==
    {l \in StartupLists : Len(l) = 1 /\ l[1].sector = 1 /\ l[1].pd12m = 45}

\* a URL parameter: absent (params.get gives null) or a string of characters
Absent == [present |-> FALSE, text |-> <<>>]
Given(str) == [present |-> TRUE, text |-> str]

IsDigit(c) == c \in {"0", "1", "2", "3", "4", "5", "6", "7", "8", "9"}

DigitOf(c) ==
    CASE c = "0" -> 0 [] c = "1" -> 1 [] c = "2" -> 2 [] c = "3" -> 3
      [] c = "4" -> 4 [] c = "5" -> 5 [] c = "6" -> 6 [] c = "7" -> 7
      [] c = "8" -> 8 [] c = "9" -> 9

\* the longest prefix of digits
RECURSIVE LeadingDigits(_)
LeadingDigits(str) ==
    IF str = <<>> \/ ~IsDigit(Head(str)) THEN <<>>
    ELSE <<Head(str)>> \o LeadingDigits(Tail(str))

RECURSIVE DigitsValue(_)
DigitsValue(ds) ==
    IF ds = <<>> THEN 0
    ELSE 10 * DigitsValue(SubSeq(ds, 1, Len(ds) - 1)) + DigitOf(ds[Len(ds)])

\* parseInt: the leading digits, NaN when there are none
ParseInt(str) ==
    IF LeadingDigits(str) = <<>> THEN NaN ELSE DigitsValue(LeadingDigits(str))

\* parseFloat, in hundredths: digits, then "." and digits; NaN when neither
ParseFloat(str) ==
    LET ip == LeadingDigits(str)
        rest == SubSeq(str, Len(ip) + 1, Len(str))
        fp == IF rest # <<>> /\ Head(rest) = "." THEN LeadingDigits(Tail(rest)) ELSE <<>>
        f2 == SubSeq(fp \o <<"0", "0">>, 1, 2)
    IN  IF ip = <<>> /\ fp = <<>> THEN NaN
        ELSE 100 * DigitsValue(ip) + DigitsValue(f2)

\* params.get(key) || default: null and "" give the default
OrDefault(raw, default) ==
    IF ~raw.present \/ raw.text = <<>> THEN default ELSE raw.text

\* lines 626-628
Params(q) ==
    [minIRR |-> ParseFloat(OrDefault(q.minIRR, <<"0", ".", "2", "5">>)),
     maxPD |-> ParseFloat(OrDefault(q.maxPD, <<"0", ".", "2", "0">>)),
     risk |-> ParseInt(OrDefault(q.risk, <<"3">>))]

\* the URLs the page is opened with: no parameters, the parameters the
\* profile form sends, an empty risk, a risk off the 1..5 scale, a minIRR
\* that is not a number
PageSearches ==
    {[minIRR |-> Absent, maxPD |-> Absent, risk |-> Absent],
     [minIRR |-> Given(<<"0", ".", "3">>), maxPD |-> Given(<<"0", ".", "5">>),
      risk |-> Given(<<"4">>)],
     [minIRR |-> Absent, maxPD |-> Absent, risk |-> Given(<<>>)],
     [minIRR |-> Absent, maxPD |-> Absent, risk |-> Given(<<"2", "0">>)],
     [minIRR |-> Given(<<"a", "b", "c">>), maxPD |-> Absent, risk |-> Absent]}

\* the draws of a run started by the page: finite z, either distress outcome
PageDraws == [z : {-1}, distressed : BOOLEAN]

InitPage ==
    /\ startups \in PageStartupLists
    /\ search \in PageSearches
    /\ profile = Params(search)
    /\ scored = NotYet /\ selected = NotYet /\ portfolio = NotYet /\ bpPc = "score"
    /\ running = FALSE /\ hasRun = FALSE /\ timers = <<>> /\ pagePc = "render"
    /\ resultOf = NotYet
    /\ IdleMC /\ IdlePMC /\ IdleEng

\* runMC, lines 636-642: setRunning(true); setTimeout(callback, 80)
RunMC(p) ==
    /\ running' = TRUE
    /\ timers' = Append(timers, p)

\* the first render's useMemo, line 630: buildPortfolio up to the selection
PageRender ==
    /\ pagePc = "render"
    /\ BPScore \/ BPSelect
    /\ UNCHANGED <<mcVars, pmcVars, pageVars>>

\* the first render's useMemo, line 630: the weights; the render is done
PageRendered ==
    /\ pagePc = "render"
    /\ BPWeigh
    /\ pagePc' = "effect"
    /\ UNCHANGED <<mcVars, pmcVars, running, hasRun, timers, resultOf, search>>

\* the mount effect that starts the run as soon as the component renders
MountEffectEarly ==
    /\ pagePc = "render"
    /\ bpPc = "score"
    /\ ~hasRun
    /\ hasRun' = TRUE
    /\ RunMC(portfolio)
    /\ UNCHANGED <<pagePc, resultOf, search, mcVars, bpVars, pmcVars>>

\* the effect's body without the hasRun guard
EveryEffect(start) ==
    /\ hasRun' = TRUE
    /\ start

\* the effect's body: if (!hasRun.current) { hasRun.current = true; runMC(); }
OncePerMount(start) ==
    IF ~hasRun
    THEN /\ hasRun' = TRUE
         /\ start
    ELSE UNCHANGED <<hasRun, running, timers>>

\* useEffect, lines 644-646; React may run a mount effect a second time
\* (pagePc "remount") before anything else happens
MountEffect ==
    /\ pagePc = "effect"
    /\ OncePerMount(RunMC(portfolio))
    /\ pagePc' \in {"idle", "remount"}
    /\ UNCHANGED <<resultOf, search, mcVars, bpVars, pmcVars>>

\* the second run of the mount effect; the ref hasRun keeps its value
MountEffectAgain ==
    /\ pagePc = "remount"
    /\ OncePerMount(RunMC(portfolio))
    /\ pagePc' = "idle"
    /\ UNCHANGED <<resultOf, search, mcVars, bpVars, pmcVars>>

\* the Re-run button, lines 775-781: onClick={runMC} disabled={running}
ClickRerun ==
    /\ pagePc = "idle"
    /\ ~running
    /\ RunMC(portfolio)
    /\ UNCHANGED <<hasRun, pagePc, resultOf, search, mcVars, bpVars, pmcVars>>

\* the timeout callback starts: runPortfolioMC(portfolio), lines 517-521
TimerFire ==
    /\ pagePc = "idle"
    /\ timers # <<>>
    /\ timers' = Tail(timers)
    /\ pagePc' = "callback"
    /\ simPortfolio' = Head(timers)
    /\ simN' = PagePaths
    /\ sim' = 0
    /\ year' = 1
    /\ value' = 10000
    /\ yearlyValues' = <<10000>>
    /\ paths' = <<>>
    /\ pmcPc' = "year"
    /\ contribs' = <<>>
    /\ hit' = {}
    /\ UNCHANGED <<mcResult, running, hasRun, resultOf, search, mcVars, bpVars>>

\* the callback's simulation loops, lines 519-536
CallbackStep ==
    /\ pagePc = "callback"
    /\ PMCYear(PageDraws) \/ PMCPush
    /\ UNCHANGED <<pageVars, mcVars, bpVars>>

\* the callback stores the result and leaves running as it is
CallbackDoneStillRunning ==
    /\ pagePc = "callback"
    /\ PMCChart
    /\ resultOf' = simPortfolio
    /\ pagePc' = "idle"
    /\ UNCHANGED <<running, hasRun, timers, search, mcVars, bpVars>>

\* the callback ends: setMcResult(runPortfolioMC(portfolio)); setRunning(false)
CallbackDone ==
    /\ pagePc = "callback"
    /\ PMCChart
    /\ running' = FALSE
    /\ resultOf' = simPortfolio
    /\ pagePc' = "idle"
    /\ UNCHANGED <<hasRun, timers, search, mcVars, bpVars>>

-----------------------------------------------------------------------------
(* The Portfolio component while its URL changes: the Sidebar it renders   *)
(* (line 654) links to the page without parameters, the profile and        *)
(* startup pages link to it with parameters (StartupDetail.jsx 346-352),   *)
(* and the browser's back and forward buttons move between the two.  The   *)
(* component stays mounted and reads window.location.search on its next    *)
(* render.                                                                 *)

\* STARTUPS as this page sees it: a high-return, riskier startup and a safe
\* one, or the other way round
NavStartupLists ==
    {<<[id |-> 1, sector |-> 1, expectedIRR |-> a, pd12m |-> 25 - b],
       [id |-> 2, sector |-> 2, expectedIRR |-> 90 - a, pd12m |-> b]>> :
         a \in {30, 60}, b \in {5, 20}}

\* the draws of a run of this page: finite z, no holding distressed
NavDraws == [z : {-1}, distressed : {FALSE}]

\* the page's URLs: without parameters, and with the profile form's
NavSearches == {q \in PageSearches : q.minIRR.present = q.risk.present}

InitNav ==
    /\ startups \in NavStartupLists
    /\ search \in NavSearches
    /\ profile = Params(search)
    /\ scored = NotYet /\ selected = NotYet /\ portfolio = NotYet /\ bpPc = "score"
    /\ running = FALSE /\ hasRun = FALSE /\ timers = <<>> /\ pagePc = "render"
    /\ resultOf = NotYet
    /\ IdleMC /\ IdlePMC /\ IdleEng

\* a link or the history changes the URL's parameters
Navigate ==
    /\ pagePc = "idle"
    /\ search' \in NavSearches \ {search}
    /\ UNCHANGED <<running, hasRun, timers, pagePc, resultOf, mcVars, bpVars, pmcVars>>

\* the callback's simulation loops, lines 519-536
NavCallbackStep ==
    /\ pagePc = "callback"
    /\ PMCYear(NavDraws) \/ PMCPush
    /\ UNCHANGED <<pageVars, mcVars, bpVars>>

\* a later render, lines 625-630: the parameters are read again and useMemo
\* rebuilds the portfolio because its dependencies changed; the mount effect
\* (dependencies []) does not run again and mcResult is kept
Rerender ==
    /\ pagePc = "idle"
    /\ profile # Params(search)
    /\ profile' = Params(search)
    /\ scored' = Scored(Pool(startups, profile'), profile'.risk)
    /\ selected' = Selected(scored')
    /\ portfolio' = Weighted(selected', profile'.risk)
    /\ UNCHANGED <<startups, bpPc, mcVars, pmcVars, pageVars>>

-----------------------------------------------------------------------------
(* The Methodology component: Methodology.jsx lines 131-149 and the Re-run *)
(* button, lines 281-288.  pagePc is "mount" before the mount effect,      *)
(* "mount-again" before its second run, "ready" between handlers and       *)
(* "simulating" while the timeout callback runs runMonteCarlo.             *)

\* the z draws of a run started by the page: u1 = 0 (the path fails in its
\* first month) or a finite z
MethDraws == {NegInf, 2}

\* run, lines 136-142: setRunning(true); setTimeout(callback, 80)
run ==
    /\ running' = TRUE
    /\ timers' = Append(timers, <<>>)

InitMeth ==
    /\ running = FALSE /\ hasRun = FALSE /\ timers = <<>> /\ pagePc = "mount"
    /\ resultOf = NotYet /\ search = Null
    /\ IdleMC /\ IdleBP /\ IdlePMC /\ IdleEng

\* useEffect, lines 144-149
MethMountEffect ==
    /\ pagePc = "mount"
    /\ OncePerMount(run)
    /\ pagePc' \in {"ready", "mount-again"}
    /\ UNCHANGED <<resultOf, search, mcVars, bpVars, pmcVars>>

MethMountEffectAgain ==
    /\ pagePc = "mount-again"
    /\ OncePerMount(run)
    /\ pagePc' = "ready"
    /\ UNCHANGED <<resultOf, search, mcVars, bpVars, pmcVars>>

\* the Re-run button, lines 281-288: onClick={run} disabled={running}
MethClickRerun ==
    /\ pagePc = "ready"
    /\ ~running
    /\ run
    /\ UNCHANGED <<hasRun, pagePc, resultOf, search, mcVars, bpVars, pmcVars>>

\* the timeout callback starts: runMonteCarlo(2000), lines 8-21
MethTimerFire ==
    /\ pagePc = "ready"
    /\ timers # <<>>
    /\ timers' = Tail(timers)
    /\ pagePc' = "simulating"
    /\ n' = PagePaths
    /\ i' = 0
    /\ m' = 0
    /\ cash' = initialCash
    /\ mrr' = baseMRR
    /\ distressed' = FALSE
    /\ results' = <<>>
    /\ mcPc' = "month"
    /\ aliveAt' = [t \in 1..months |-> 0]
    /\ UNCHANGED <<simResult, running, hasRun, resultOf, search, bpVars, pmcVars>>

\* the callback's simulation loops, lines 17-39
MethCallbackStep ==
    /\ pagePc = "simulating"
    /\ MCMonth(MethDraws) \/ MCRecord
    /\ UNCHANGED <<pageVars, bpVars, pmcVars>>

\* the callback ends: setSimResult(runMonteCarlo(2000)); setRunning(false)
MethCallbackDone ==
    /\ pagePc = "simulating"
    /\ MCSummary
    /\ running' = FALSE
    /\ pagePc' = "ready"
    /\ UNCHANGED <<hasRun, timers, resultOf, search, bpVars, pmcVars>>

-----------------------------------------------------------------------------
(* The objective scoring of the portfolio engine (build_portfolio of the   *)
(* README, objectives "expected_roi", "expected_log", "prob_target",       *)
(* "prob_10x" and "auto").  ROI in tenths; scores, means, deviations and   *)
(* probabilities in thousandths; penalties in hundredths.                  *)

\* bound: the number of ROI samples of a run
MaxSamples == 3

\* the fixed objectives, in enumeration order
Objectives == <<"expected_roi", "expected_log", "prob_target", "prob_10x">>

\* ROI samples: total loss, 0.5x, 2x, 12x
RoiValues == {0, 5, 20, 120}

EngConfigs ==
    [objective : {"auto", "expected_roi", "expected_log", "prob_target", "prob_10x"},
     risk_penalty : {0, 50}, loss_penalty : {0, 100}, target_roi : {20, 30}]

\* log(max(roi, floor)) with floor = 1e-6, in thousandths
LogRoi(roi) ==
    CASE roi = 0 -> -13816 [] roi = 5 -> -693 [] roi = 20 -> 693 [] roi = 120 -> 2485

Mean(xs) == SumSeq(xs) \div Len(xs)

\* floor of the square root of x, searched between lo and hi
RECURSIVE SqrtBetween(_, _, _)
SqrtBetween(x, lo, hi) ==
    IF lo >= hi THEN lo
    ELSE LET mid == (lo + hi + 1) \div 2
         IN  IF mid * mid <= x THEN SqrtBetween(x, mid, hi)
             ELSE SqrtBetween(x, lo, mid - 1)

StdDev(xs) ==
    LET mu == Mean(xs)
        var == SumSeq([k \in 1..Len(xs) |-> (xs[k] - mu) * (xs[k] - mu)]) \div Len(xs)
    IN  SqrtBetween(var, 0, 20000)

\* the probability mass of the samples in the set of indices ks
Mass(xs, ks) == (Cardinality(ks) * 1000) \div Len(xs)

ProbLt1(xs) == Mass(xs, {k \in 1..Len(xs) : xs[k] < 10})

ProbGe(xs, t) == Mass(xs, {k \in 1..Len(xs) : xs[k] >= t})

Penalised(vals, xs, cfg) ==
    Mean(vals) - (cfg.risk_penalty * StdDev(vals)) \div 100
               - (cfg.loss_penalty * ProbLt1(xs)) \div 100

\* the score of the sample set xs under the fixed objective o
ObjectiveScore(o, xs, cfg) ==
    CASE o = "expected_roi" ->
           Penalised([k \in 1..Len(xs) |-> 100 * xs[k]], xs, cfg)
      [] o = "expected_log" ->
           Penalised([k \in 1..Len(xs) |-> LogRoi(xs[k])], xs, cfg)
      [] o = "prob_target" -> ProbGe(xs, cfg.target_roi)
      [] o = "prob_10x" -> ProbGe(xs, 100)

InitEng ==
    /\ engSamples \in UNION {[1..k -> RoiValues] : k \in 1..MaxSamples}
    /\ engConfig \in EngConfigs
    /\ engIdx = 1
    /\ engBest = Null
    /\ engResult = Null
    /\ engPc = "score"

\* the candidate always replaces the best so far
KeepLast(best, cand) == cand

\* the better of the best so far and the candidate; a tie keeps the earlier
Better(best, cand) ==
    IF best = Null \/ cand.score > best.score THEN cand ELSE best

\* a fixed objective: its score is the result
EngFixed ==
    /\ engPc = "score"
    /\ engConfig.objective # "auto"
    /\ engResult' = [objective_used |-> engConfig.objective,
                     portfolio_score |->
                         ObjectiveScore(engConfig.objective, engSamples, engConfig)]
    /\ engPc' = "done"
    /\ UNCHANGED <<engSamples, engConfig, engIdx, engBest>>

\* "auto": one pass of the loop over the enumeration
EngAutoEval ==
    /\ engPc = "score"
    /\ engConfig.objective = "auto"
    /\ engIdx <= Len(Objectives)
    /\ engBest' = Better(engBest,
                         [objective |-> Objectives[engIdx],
                          score |-> ObjectiveScore(Objectives[engIdx], engSamples, engConfig)])
    /\ engIdx' = engIdx + 1
    /\ UNCHANGED <<engSamples, engConfig, engResult, engPc>>

\* "auto": the loop is over, the best objective is the result
EngAutoReturn ==
    /\ engPc = "score"
    /\ engConfig.objective = "auto"
    /\ engIdx > Len(Objectives)
    /\ engResult' = [objective_used |-> engBest.objective,
                     portfolio_score |-> engBest.score]
    /\ engPc' = "done"
    /\ UNCHANGED <<engSamples, engConfig, engIdx, engBest>>

-----------------------------------------------------------------------------
(* Specifications.                                                         *)

InitMCOnly == InitMC /\ IdleBP /\ IdlePMC /\ IdlePage /\ IdleEng

MCOnly ==
    \/ MCMonth(ZDraws) /\ UNCHANGED <<bpVars, pmcVars, pageVars, engVars>>
    \/ MCRecord /\ UNCHANGED <<bpVars, pmcVars, pageVars, engVars>>
    \/ MCSummary /\ UNCHANGED <<bpVars, pmcVars, pageVars, engVars>>

\* runMonteCarlo
SpecMC == InitMCOnly /\ [][MCOnly]_vars

InitBPOnly == InitBP /\ IdleMC /\ IdlePMC /\ IdlePage /\ IdleEng

BPOnly ==
    \/ BPScore /\ UNCHANGED <<mcVars, pmcVars, pageVars, engVars>>
    \/ BPSelect /\ UNCHANGED <<mcVars, pmcVars, pageVars, engVars>>
    \/ BPWeigh /\ UNCHANGED <<mcVars, pmcVars, pageVars, engVars>>

\* buildPortfolio
SpecBP == InitBPOnly /\ [][BPOnly]_vars

InitPMCOnly == InitPMC /\ IdleMC /\ IdleBP /\ IdlePage /\ IdleEng

PMCOnly ==
    \/ PMCYear(PathDraws) /\ UNCHANGED <<mcVars, bpVars, pageVars, engVars>>
    \/ PMCPush /\ UNCHANGED <<mcVars, bpVars, pageVars, engVars>>
    \/ PMCChart /\ UNCHANGED <<mcVars, bpVars, pageVars, engVars>>

\* one path of runPortfolioMC
SpecPMC == InitPMCOnly /\ [][PMCOnly]_vars

\* the paths a run can end with: distressed, or with a terminal MRR of
\* $0, $1,000, $5,000, $20,000, $150,000 or $1,337,000
PathOutcomes ==
    {Outcome(0, TRUE)} \cup
    {Outcome(r, FALSE) : r \in {0, 1000, 5000, 20000, 150000, 1337000}}

\* runMonteCarlo after its path loop (line 41): the loop's locals are gone
InitSummary ==
    /\ n \in 1..MaxTrials
    /\ results \in [1..n -> PathOutcomes]
    /\ i = n
    /\ m = 0 /\ cash = 0 /\ mrr = 0 /\ distressed = FALSE
    /\ mcPc = "summary"
    /\ aliveAt = <<>>
    /\ simResult = Null
    /\ IdleBP /\ IdlePMC /\ IdlePage /\ IdleEng

SummaryOnly == MCSummary /\ UNCHANGED <<bpVars, pmcVars, pageVars, engVars>>

\* the summary statistics and histogram of runMonteCarlo
SpecSummary == InitSummary /\ [][SummaryOnly]_vars

\* expectedIRR and pd12m values for which the weighting formula is exact in
\* hundredths: 1 / (pd12m + 0.05) is 10, 5, 4, 2.5, 2 or 1
WeighQualities == [expectedIRR : {0, 10, 30, 60, 120}, pd12m : {5, 15, 20, 35, 45, 95}]

\* buildPortfolio on two startups of different sectors, at each risk
InitWeigh ==
    /\ startups \in {<<[id |-> 1, sector |-> 1, expectedIRR |-> a.expectedIRR,
                         pd12m |-> a.pd12m],
                        [id |-> 2, sector |-> 2, expectedIRR |-> b.expectedIRR,
                         pd12m |-> b.pd12m]>> : a, b \in WeighQualities}
    /\ profile \in Profiles
    /\ scored = NotYet /\ selected = NotYet /\ portfolio = NotYet /\ bpPc = "score"
    /\ IdleMC /\ IdlePMC /\ IdlePage /\ IdleEng

\* buildPortfolio on pairs of startups
SpecWeigh == InitWeigh /\ [][BPOnly]_vars

InitEngOnly == InitEng /\ IdleMC /\ IdleBP /\ IdlePMC /\ IdlePage

EngOnly ==
    \/ EngFixed /\ UNCHANGED <<mcVars, bpVars, pmcVars, pageVars>>
    \/ EngAutoEval /\ UNCHANGED <<mcVars, bpVars, pmcVars, pageVars>>
    \/ EngAutoReturn /\ UNCHANGED <<mcVars, bpVars, pmcVars, pageVars>>

\* the objective scoring of the portfolio engine
SpecEng == InitEngOnly /\ [][EngOnly]_vars

InitBuildSim == InitBPOnly \/ InitPMCOnly

NextBuildSim == BPOnly \/ PMCOnly

\* buildPortfolio, or one path of runPortfolioMC
SpecBuildSim == InitBuildSim /\ [][NextBuildSim]_vars

InitSim == InitMCOnly \/ InitPMCOnly

NextSim == MCOnly \/ PMCOnly

\* either simulation
SpecSim == InitSim /\ [][NextSim]_vars

NextPage ==
    \/ PageRender /\ UNCHANGED engVars
    \/ PageRendered /\ UNCHANGED engVars
    \/ MountEffect /\ UNCHANGED engVars
    \/ MountEffectAgain /\ UNCHANGED engVars
    \/ ClickRerun /\ UNCHANGED engVars
    \/ TimerFire /\ UNCHANGED engVars
    \/ CallbackStep /\ UNCHANGED engVars
    \/ CallbackDone /\ UNCHANGED engVars

\* the Portfolio page
SpecPage == InitPage /\ [][NextPage]_vars

NextNav ==
    \/ PageRender /\ UNCHANGED engVars
    \/ PageRendered /\ UNCHANGED engVars
    \/ MountEffect /\ UNCHANGED engVars
    \/ MountEffectAgain /\ UNCHANGED engVars
    \/ ClickRerun /\ UNCHANGED engVars
    \/ TimerFire /\ UNCHANGED engVars
    \/ NavCallbackStep /\ UNCHANGED engVars
    \/ CallbackDone /\ UNCHANGED engVars
    \/ Navigate /\ UNCHANGED engVars
    \/ Rerender /\ UNCHANGED engVars

\* the Portfolio page while its URL changes
SpecNav == InitNav /\ [][NextNav]_vars

\* either page is mounted
InitPages == InitPage \/ InitMeth

NextPages ==
    \/ PageRender /\ UNCHANGED engVars
    \/ PageRendered /\ UNCHANGED engVars
    \/ MountEffect /\ UNCHANGED engVars
    \/ MountEffectAgain /\ UNCHANGED engVars
    \/ ClickRerun /\ UNCHANGED engVars
    \/ TimerFire /\ UNCHANGED engVars
    \/ CallbackStep /\ UNCHANGED engVars
    \/ CallbackDone /\ UNCHANGED engVars
    \/ MethMountEffect /\ UNCHANGED engVars
    \/ MethMountEffectAgain /\ UNCHANGED engVars
    \/ MethClickRerun /\ UNCHANGED engVars
    \/ MethTimerFire /\ UNCHANGED engVars
    \/ MethCallbackStep /\ UNCHANGED engVars
    \/ MethCallbackDone /\ UNCHANGED engVars

\* the Portfolio page or the Methodology page
SpecPages == InitPages /\ [][NextPages]_vars

\* the steps that need no user: a pending render, a pending effect, a
\* timeout callback that is due, the callback's loops and its end.  In each
\* state the enabled ones belong to one handler (pagePc).
Scheduled ==
    \/ PageRender \/ PageRendered \/ MountEffect \/ MountEffectAgain
    \/ TimerFire \/ CallbackStep \/ CallbackDone
    \/ MethMountEffect \/ MethMountEffectAgain
    \/ MethTimerFire \/ MethCallbackStep \/ MethCallbackDone

\* React runs a pending render and a pending effect, the browser runs a
\* timeout callback that is due once the running handler has returned, and
\* the callback's loops go on to their end; a click may never happen
SpecPagesFair == SpecPages /\ WF_vars(Scheduled /\ UNCHANGED engVars)

-----------------------------------------------------------------------------
(* C3: every simulated outcome is at least 0 for all random draws: the     *)
(* multiple of every runMonteCarlo path and every yearly value             *)
(* runPortfolioMC records.  (A comparison with NaN is false.)              *)
C3_NonNegativeOutcomes ==
    /\ \A k \in 1..Len(results) : XLeq(0, results[k].multiple)
    /\ \A k \in 1..Len(yearlyValues) : XLeq(0, yearlyValues[k])
    /\ \A p \in 1..Len(paths) :
         \A k \in 1..Len(paths[p]) : XLeq(0, paths[p][k])

(* C5: failure is absorbing in runPortfolioMC: a holding that has been     *)
(* distressed in an earlier year of the path contributes nothing in a      *)
(* later year, and a recorded value of 0 is followed by 0.                 *)
C5_FailureAbsorbing ==
    [][(pmcPc = "year" /\ year' = year + 1) =>
         /\ \A h \in hit : contribs'[h] = 0
         /\ (yearlyValues[Len(yearlyValues)] = 0 =>
               yearlyValues'[Len(yearlyValues')] = 0)]_vars

(* C7: the distress probability pd12m * (year / 2) that runPortfolioMC     *)
(* compares Math.random() with lies in [0, 1] for every holding with pd12m *)
(* in [0, 1] and every year 1..5.                                          *)
C7_HazardInUnitInterval ==
    pmcPc = "year" =>
        \A h \in 1..Len(simPortfolio) :
            simPortfolio[h].pd12m \in 0..100 =>
                DistressProb(simPortfolio[h].pd12m, year) \in 0..1000

(* C8: two runs of the simulation on the same portfolio give the same      *)
(* result: a run that completes on the portfolio the displayed result was  *)
(* computed from leaves the result as it was.                              *)
C8_Deterministic ==
    [][(pmcPc = "chart" /\ pmcPc' = "done" /\ resultOf = simPortfolio) =>
         mcResult' = mcResult]_vars

-----------------------------------------------------------------------------
\* h satisfies the investor profile pr
Fits(h, pr) == h.expectedIRR >= pr.minIRR /\ h.pd12m <= pr.maxPD

(* C11 as stated: every holding buildPortfolio returns satisfies the       *)
(* investor profile it was built for: expectedIRR >= minIRR and            *)
(* pd12m <= maxPD; the selection is never padded with others.              *)
C11_OnlyFitting ==
    bpPc = "built" => \A j \in 1..Len(portfolio) : Fits(portfolio[j], profile)

(* C11: when at least 5 startups satisfy the investor profile, every       *)
(* holding buildPortfolio returns satisfies it; with fewer than 5 the pool *)
(* falls back to the whole list and the holdings are picked from all.      *)
C11_FittingWhenEnough ==
    bpPc = "built" =>
        IF Len(Eligible(startups, profile)) >= 5
        THEN \A j \in 1..Len(portfolio) : Fits(portfolio[j], profile)
        ELSE Ids(portfolio) = Ids(Selected(Scored(startups, profile.risk)))

\* five fitting startups and a sixth, better-scored one that does not fit
C11_Witness ==
    /\ bpPc = "built"
    /\ Len(Eligible(startups, profile)) = 5
    /\ \E j \in 1..Len(startups) :
         /\ ~Fits(startups[j], profile)
         /\ \A h \in 1..Len(portfolio) :
              Score(startups[j], profile.risk) > portfolio[h].score

-----------------------------------------------------------------------------
\* str is a number written out in full
IsNumeric(str) ==
    /\ str # <<>>
    /\ \A k \in 1..Len(str) : IsDigit(str[k]) \/ str[k] = "."
    /\ Cardinality({k \in 1..Len(str) : str[k] = "."}) <= 1
    /\ \E k \in 1..Len(str) : IsDigit(str[k])

\* the URL's configuration is valid: every parameter given is a number, a
\* minIRR and a maxPD in [0, 1], a risk on the 1..5 scale
ValidSearch(q) ==
    /\ q.minIRR.present =>
         IsNumeric(q.minIRR.text) /\ ParseFloat(q.minIRR.text) \in 0..100
    /\ q.maxPD.present =>
         IsNumeric(q.maxPD.text) /\ ParseFloat(q.maxPD.text) \in 0..100
    /\ q.risk.present =>
         IsNumeric(q.risk.text) /\ ParseInt(q.risk.text) \in 1..5

(* C12: an invalid configuration (a minIRR, maxPD or risk that is not a    *)
(* number or is out of range) is reported before any scoring or simulation *)
(* work begins: on an invalid URL nothing is scored, no simulation is      *)
(* scheduled or run, and no default stands in for the invalid value.       *)
C12_InvalidConfigReported ==
    ~ValidSearch(search) =>
        /\ scored = NotYet
        /\ timers = <<>>
        /\ pmcPc = "idle"

-----------------------------------------------------------------------------
(* C13: when every path of a runMonteCarlo run ends distressed, the        *)
(* summary is still defined: pd is 1, and meanIRR and rar are numbers (not *)
(* NaN): the empty survivor set gives meanIRR 0 and rar 0.                 *)
C13_AllFailDefined ==
    (mcPc = "done" /\ \A k \in 1..Len(results) : results[k].distressed) =>
        /\ simResult.pd = 1000
        /\ simResult.meanIRR # NaN /\ IsFin(simResult.meanIRR)
        /\ simResult.rar # NaN /\ IsFin(simResult.rar)

\* a finished run of two or more paths, all of them distressed
C13_Witness ==
    /\ mcPc = "done"
    /\ Len(results) >= 2
    /\ \A k \in 1..Len(results) : results[k].distressed
    /\ simResult.distressedCount = Len(results)

-----------------------------------------------------------------------------
(* C14: building a portfolio and simulating it leave their inputs as they  *)
(* were: no step of buildPortfolio changes the startups array, a startup   *)
(* record or the profile, nor what earlier steps produced, and no step of  *)
(* runPortfolioMC changes the portfolio's holdings or their weights.       *)
C14_InputsUnchanged ==
    [][/\ bpPc \in {"score", "select", "weigh"} =>
            /\ startups' = startups
            /\ profile' = profile
            /\ scored # NotYet => scored' = scored
            /\ selected # NotYet => selected' = selected
       /\ pmcPc \in {"year", "push", "chart"} => simPortfolio' = simPortfolio]_vars

\* buildPortfolio has returned from the fallback pool (the startups array
\* itself), whose ranking is not the array's order
C14_Witness ==
    /\ bpPc = "built"
    /\ Len(Eligible(startups, profile)) < 5
    /\ Len(startups) >= 3
    /\ \E j \in 1..Len(startups) : scored[j].id # startups[j].id

-----------------------------------------------------------------------------
(* C15: under objective "auto" every fixed objective is evaluated on the   *)
(* same samples and the portfolio_score returned is at least the score of  *)
(* each fixed objective; the objective used is the first, in enumeration   *)
(* order, that reaches it.                                                 *)
C15_AutoDominates ==
    (engPc = "done" /\ engConfig.objective = "auto") =>
        /\ \A k \in 1..Len(Objectives) :
             engResult.portfolio_score >=
                 ObjectiveScore(Objectives[k], engSamples, engConfig)
        /\ \E k \in 1..Len(Objectives) :
             /\ engResult.objective_used = Objectives[k]
             /\ engResult.portfolio_score =
                    ObjectiveScore(Objectives[k], engSamples, engConfig)
             /\ \A j \in 1..(k - 1) :
                    ObjectiveScore(Objectives[j], engSamples, engConfig)
                        < engResult.portfolio_score

\* an "auto" run in which the first objective wins and the last one scores less
C15_Witness ==
    /\ engPc = "done"
    /\ engConfig.objective = "auto"
    /\ engResult.objective_used = "expected_roi"
    /\ ObjectiveScore("prob_10x", engSamples, engConfig) < engResult.portfolio_score
    /\ Len(engSamples) >= 2

-----------------------------------------------------------------------------
\* the number of paths recorded as distressed
DistressedPaths == Cardinality({k \in 1..Len(results) : results[k].distressed})

(* C16: in runMonteCarlo a path is flagged distressed exactly when its     *)
(* cash balance is <= 0 at the end of a simulated month, the flag is what  *)
(* the path is recorded with, and the reported pd is the number of         *)
(* distressed paths divided by n: distressedCount plus the surviving       *)
(* paths is n and pd lies in [0, 1].                                       *)
C16_DistressedIffCashOut ==
    /\ [](mcPc = "month" => ~distressed)
    /\ [][(mcPc = "month" /\ i' = i) => (distressed' <=> XLeq(cash', 0))]_vars
    /\ [][i' = i + 1 => results'[i'].distressed = distressed]_vars
    /\ [](mcPc = "done" =>
            /\ simResult.distressedCount = DistressedPaths
            /\ simResult.distressedCount + (Len(results) - DistressedPaths) = n
            /\ Len(results) = n
            /\ simResult.pd = (DistressedPaths * 1000) \div n
            /\ simResult.pd \in 0..1000)

\* a finished run of three paths, one of them distressed
C16_Witness ==
    /\ mcPc = "done"
    /\ n = 3
    /\ simResult.distressedCount = 1
    /\ simResult.pd = 333

-----------------------------------------------------------------------------
\* distress probabilities in [0, 1], in thousandths
PDGrid == {125 * k : k \in 0..8}

-----------------------------------------------------------------------------
\* the IRRs of the paths that did not end distressed
SurvivorIRRs == {k \in 1..Len(results) : ~results[k].distressed}

(* C18: in runMonteCarlo's histogram every non-distressed path is counted  *)
(* in exactly one of the 12 buckets, namely the one whose [min, max) range *)
(* contains its IRR (the first bucket below the range, the last above it), *)
(* so the bars with min < 0 count exactly the paths with negative IRR.     *)
C18_HistogramBuckets ==
    mcPc = "done" =>
        LET bk == simResult.buckets
            InRange(b, irr) ==
                \/ bk[b].min <= irr /\ irr < bk[b].max
                \/ b = 0 /\ irr < bk[0].min
                \/ b = 11 /\ irr >= bk[11].max
        IN  /\ SumSeq([b \in 1..12 |-> bk[b - 1].count]) = Cardinality(SurvivorIRRs)
            /\ \A b \in 0..11 :
                 bk[b].count =
                     Cardinality({k \in SurvivorIRRs : InRange(b, results[k].irr)})
            /\ SumSeq([b \in 1..12 |->
                          IF bk[b - 1].min < 0 THEN bk[b - 1].count ELSE 0])
                 = Cardinality({k \in SurvivorIRRs : results[k].irr < 0})

-----------------------------------------------------------------------------
Min(a, b) == IF a <= b THEN a ELSE b

Sectors(seq) == {seq[j].sector : j \in 1..Len(seq)}

(* C19: buildPortfolio returns exactly min(5, |pool|) holdings, no startup *)
(* (by id) twice among them; with at least 5 startups it returns exactly 5.*)
C19_FivePicksNoDuplicates ==
    bpPc = "built" =>
        /\ Len(portfolio) = Min(5, Len(Pool(startups, profile)))
        /\ \A j, k \in 1..Len(portfolio) :
             portfolio[j].id = portfolio[k].id => j = k
        /\ Ids(portfolio) \subseteq Ids(Pool(startups, profile))
        /\ Len(startups) >= 5 => Len(portfolio) = 5

\* five holdings out of six startups of fewer than five sectors: the fill
\* by rank has passed over holdings the sector pass had taken
C19_Witness ==
    /\ bpPc = "built"
    /\ Len(startups) = 6
    /\ Len(portfolio) = 5
    /\ Cardinality(Sectors(startups)) = 3

(* C20: the number of distinct sectors among the holdings buildPortfolio   *)
(* returns is min(5, number of distinct sectors of the pool): two holdings *)
(* share a sector only when the pool has fewer than 5 distinct sectors.    *)
C20_SectorDiversification ==
    bpPc = "built" =>
        /\ Cardinality(Sectors(portfolio)) =
               Min(5, Cardinality(Sectors(Pool(startups, profile))))
        /\ (\E j, k \in 1..Len(portfolio) :
                j # k /\ portfolio[j].sector = portfolio[k].sector)
               => Cardinality(Sectors(Pool(startups, profile))) < 5

\* a pool of five sectors, six startups: the one left out outscores a holding
C20_Witness ==
    /\ bpPc = "built"
    /\ Len(Pool(startups, profile)) = 6
    /\ Cardinality(Sectors(startups)) = 5
    /\ Cardinality(Sectors(portfolio)) = 5
    /\ \E k \in 1..Len(scored) :
         /\ scored[k].id \notin Ids(portfolio)
         /\ \E j \in 1..Len(portfolio) : portfolio[j].score < scored[k].score

-----------------------------------------------------------------------------
-----------------------------------------------------------------------------
\* the runs that are scheduled or executing
Pending == Len(timers) + (IF pagePc \in {"callback", "simulating"} THEN 1 ELSE 0)

(* C22: on the Methodology and Portfolio pages at most one simulation run  *)
(* is pending at any time, and one is pending exactly while running is     *)
(* true; a step schedules a run only while running is false; and the       *)
(* automatic run is started exactly once per mount: the first run of the   *)
(* mount effect schedules it and a second run of the effect schedules      *)
(* nothing.                                                                *)
C22_OneRunPending ==
    /\ [](Pending <= 1 /\ (running <=> Pending = 1))
    /\ [][/\ Len(timers') > Len(timers) => ~running
          /\ pagePc \in {"effect", "mount"} => Len(timers') = 1 /\ hasRun'
          /\ pagePc \in {"remount", "mount-again"} => timers' = timers /\ hasRun']_vars

\* the mount effect is about to run a second time while the automatic run
\* it scheduled the first time is pending
C22_Witness ==
    /\ pagePc \in {"remount", "mount-again"}
    /\ hasRun
    /\ running
    /\ Len(timers) = 1

-----------------------------------------------------------------------------
(* C23: every started simulation run eventually completes: once running is *)
(* true the page reaches a state between handlers where running is false   *)
(* (the Re-run button enabled) and a result is stored; and the step that   *)
(* sets running back to false is the callback's end, which stores a        *)
(* non-null result.                                                        *)
C23_RunCompletes ==
    /\ running ~> (/\ ~running
                   /\ pagePc \in {"idle", "ready"}
                   /\ (mcResult # Null \/ simResult # Null))
    /\ [][(running /\ ~running') =>
            \/ pagePc = "callback" /\ mcResult' # Null /\ mcResult' = ChartResult(paths, simN)
            \/ pagePc = "simulating" /\ simResult' # Null /\ simResult' = Summary(results, n)]_vars

\* a run has completed: its result is stored and no run is pending
C23_Witness ==
    /\ ~running
    /\ timers = <<>>
    /\ hasRun
    /\ \/ pagePc = "idle" /\ mcResult # Null
       \/ pagePc = "ready" /\ simResult # Null

-----------------------------------------------------------------------------
(* C24: whenever the Portfolio page shows a Monte Carlo result while no    *)
(* run is pending, that result was computed from the portfolio currently   *)
(* displayed, also after the URL's parameters changed or a run started     *)
(* under earlier parameters finished.                                      *)
C24_ResultOfDisplayedPortfolio ==
    (pagePc = "idle" /\ ~running /\ timers = <<>> /\ mcResult # Null)
        => resultOf = portfolio

-----------------------------------------------------------------------------
\* the percentiles of the chart, in hundredths
Percentiles == {10, 25, 50, 75, 90}

(* C25: for every year 0..5 of runPortfolioMC's chart data the percentile  *)
(* breakpoints are ordered p10 <= p25 <= p50 <= p75 <= p90 and at year 0   *)
(* all five are 100; and when the chart is computed (n >= 1 paths) every   *)
(* percentile is read at an index within the sorted sample and is the      *)
(* year's value of one of the simulated paths.                             *)
C25_PercentilesOrdered ==
    /\ (pmcPc = "chart" /\ Len(paths) >= 1) =>
          \A y \in 0..Years : \A p \in Percentiles :
              LET vals == [k \in 1..Len(paths) |-> paths[k][y + 1]]
              IN  /\ ((Len(vals) * p) \div 100) + 1 \in 1..Len(vals)
                  /\ \E k \in 1..Len(vals) : GetPercentile(vals, p) = vals[k]
    /\ mcResult # Null =>
          \A y \in 0..Years :
              LET c == mcResult.chartData[y]
              IN  /\ XLeq(c.p10, c.p25) /\ XLeq(c.p25, c.p50)
                  /\ XLeq(c.p50, c.p75) /\ XLeq(c.p75, c.p90)
                  /\ y = 0 => {c.p10, c.p25, c.p50, c.p75, c.p90} = {1000}

=============================================================================
